---------------------------- MODULE Spec2Model ----------------------------
(***************************************************************************)
(* A model of AudioREV.py: the score-store reader (load_audio_data), the   *)
(* filter/sort engine of AudioReviewApp (apply_filters, sort_column) and   *)
(* the preprocessing dialog and batch orchestrator                         *)
(* (run_preprocessing_thread, _perform_preprocessing).                     *)
(*                                                                         *)
(* Conventions.  A Python str is a sequence of one-character strings, so   *)
(* that lower(), strip() and the substring test are computed.  An optional *)
(* number (a score that may be None) is <<>> for None and <<v>> for the    *)
(* number v.  A JSON object is a function from its keys to its values.     *)
(* The rendering of the Treeview is not modelled.  The status bar and the   *)
(* queue that feeds it are modelled for the preprocessing job, whose       *)
(* thread reaches the window through them; the status texts that the       *)
(* handlers of the main window put on the queue are left out.  Closing    *)
(* the main window ends mainloop() and with it the process, daemon threads *)
(* included.  SpecLoad, SpecGui and SpecPre are the reader, the window and *)
(* the job; SpecRuns is the job started again while it runs, SpecTools is  *)
(* run_audio_aes called on its own and SpecIndex is create_wav_jsonl       *)
(* called on its own.                                                      *)
(***************************************************************************)
EXTENDS Integers, Sequences, FiniteSets, TLC

\* ------------------------------------------------------------------ bounds

\* Most lines in one of the two files of the subdirectory under study.
MaxLines == 2

\* ------------------------------------------------------- values and strings

None == <<>>
Some(v) == <<v>>

ScoreKeys == <<"CE", "CU", "PC", "PQ">>

\* dict.get(key) of a JSON object: the value, or None when the key is absent.
get(obj, key) == IF key \in DOMAIN obj THEN obj[key] ELSE None

\* str.lower() on the model's alphabet.
lower_char(c) ==
    CASE c = "A" -> "a" [] c = "B" -> "b" [] c = "V" -> "v" [] c = "W" -> "w"
      [] OTHER -> c
lower(s) == [i \in 1..Len(s) |-> lower_char(s[i])]

\* str.strip(): leading and trailing blanks removed.
RECURSIVE lstrip(_)
lstrip(s) == IF s # <<>> /\ s[1] = " " THEN lstrip(Tail(s)) ELSE s
RECURSIVE rstrip(_)
rstrip(s) ==
    IF s # <<>> /\ s[Len(s)] = " " THEN rstrip(SubSeq(s, 1, Len(s) - 1)) ELSE s
strip(s) == rstrip(lstrip(s))

\* a in b, for two strings.
is_substring(a, b) ==
    \E i \in 0..(Len(b) - Len(a)) : SubSeq(b, i + 1, i + Len(a)) = a

\* ord(c) on the model's alphabet, and the order of str under <.
ord(c) ==
    CASE c = " " -> 32 [] c = "/" -> 47 [] c = "0" -> 48 [] c = "1" -> 49
      [] c = "2" -> 50 [] c = "3" -> 51 [] c = "A" -> 65 [] c = "B" -> 66
      [] c = "a" -> 97 [] c = "b" -> 98 [] c = "d" -> 100 [] c = "m" -> 109
      [] OTHER -> 120
str_less(a, b) ==
    \E i \in 1..Len(b) :
        /\ \A j \in 1..(i - 1) : j <= Len(a) /\ a[j] = b[j]
        /\ (i > Len(a) \/ ord(a[i]) < ord(b[i]))

\* float(s) for the texts of the model: blanks around an unsigned decimal
\* integer.  is_float_text is whether float(s) returns instead of raising
\* ValueError.
is_digit(c) == c \in {"0", "1", "2", "3"}
is_float_text(s) ==
    /\ strip(s) # <<>>
    /\ \A i \in 1..Len(strip(s)) : is_digit(strip(s)[i])
RECURSIVE digits_value(_)
digits_value(s) ==
    IF s = <<>> THEN 0
    ELSE 10 * digits_value(SubSeq(s, 1, Len(s) - 1)) + (ord(s[Len(s)]) - 48)
float(s) == digits_value(strip(s))

\* ------------------------------------------------------------ the disk

\* Paths a manifest of the model may name.
PathAb == <<"/", "A", "b">>
PathBa == <<"/", "B", "a">>
PathB == <<"/", "b">>
PathMissing == <<"/", "m">>
PathDir == <<"/", "d">>

\* Path.is_file(): the regular files that exist at load time.
RegularFiles == {PathAb, PathBa, PathB}
is_file_unchecked(p) == TRUE
is_file(p) == p \in RegularFiles

\* Path(p).name: what follows the last "/".
RECURSIVE PathName(_)
PathName(p) ==
    IF p = <<>> THEN <<>>
    ELSE IF p[Len(p)] = "/" THEN <<>>
    ELSE PathName(SubSeq(p, 1, Len(p) - 1)) \o <<p[Len(p)]>>

\* os.path.isdir(base_dir) for the directory names of the model.
isdir(d) == d = "base"

\* One line of a .jsonl file as json.loads sees it: kind "bad" raises
\* JSONDecodeError, kind "obj" is a JSON object (obj holds it), kind "other"
\* is valid JSON that is no object (a number, a list, null).
Line(kind, obj) == [kind |-> kind, obj |-> obj]
BadLine == Line("bad", <<>>)
OtherLine == Line("other", <<>>)
PathLine(p) == Line("obj", "path" :> p)
NoPathLine == Line("obj", <<>>)
\* A scores line; each argument is an optional number (<<>>: JSON null).
ScoreLine(ce, pq) == Line("obj", ("CE" :> ce) @@ ("PQ" :> pq))
ScoreLine4(ce, cu, pc, pq) ==
    Line("obj", ("CE" :> ce) @@ ("CU" :> cu) @@ ("PC" :> pc) @@ ("PQ" :> pq))
EmptyScoreLine == Line("obj", <<>>)

\* One entry of os.listdir(base_dir): a subdirectory (or a plain file) with
\* its paths.jsonl and scores.jsonl, each present or not.
Item(isd, hp, ps, hs, ss) ==
    [isdir |-> isd, has_paths |-> hp, paths |-> ps, has_scores |-> hs, scores |-> ss]

\* --------------------------------------------------------- load_audio_data

\* The loop of lines 60-66 (and 68-75): the parsed values of the lines that
\* are valid JSON, in order; ln records the line number a value came from.
RECURSIVE read_lines(_, _)
read_lines(lines, n) ==
    IF n > Len(lines) THEN <<>>
    ELSE IF lines[n].kind = "bad" THEN read_lines(lines, n + 1)
    ELSE << [kind |-> lines[n].kind, obj |-> lines[n].obj, ln |-> n] >>
         \o read_lines(lines, n + 1)

NumBad(lines) == Cardinality({n \in 1..Len(lines) : lines[n].kind = "bad"})

\* invalid_entries_count += 1 in the except of the paths loop (line 66).
paths_invalid_lines(lines) == NumBad(lines)

\* The except of the scores loop counts nothing (line 75 is commented out).
scores_invalid_lines_counted(lines) == NumBad(lines)
scores_invalid_lines(lines) == 0

\* The entry of lines 97-104; sub, pline and sline record where it came from.
make_entry(p, s, sub) ==
    [filename |-> PathName(get(p.obj, "path")),
     path |-> get(p.obj, "path"),
     CE |-> get(s.obj, "CE"), CU |-> get(s.obj, "CU"),
     PC |-> get(s.obj, "PC"), PQ |-> get(s.obj, "PQ"),
     sub |-> sub, pline |-> p.ln, sline |-> s.ln]

\* The zip loop of lines 81-105 from pair k on (zip stops with the shorter
\* list).  A value that is no object raises at .get(); the except of line 106
\* ends the subdirectory and counts one more invalid entry.
RECURSIVE zip_loop(_, _, _, _, _, _)
zip_loop(pc, sc, k, sub, data, invalid) ==
    IF k > Len(pc) \/ k > Len(sc) THEN [data |-> data, invalid |-> invalid]
    ELSE IF pc[k].kind # "obj" THEN [data |-> data, invalid |-> invalid + 1]
    ELSE IF get(pc[k].obj, "path") = <<>>
         THEN zip_loop(pc, sc, k + 1, sub, data, invalid + 1)
    ELSE IF ~is_file(get(pc[k].obj, "path"))
         THEN zip_loop(pc, sc, k + 1, sub, data, invalid + 1)
    ELSE IF sc[k].kind # "obj" THEN [data |-> data, invalid |-> invalid + 1]
    ELSE zip_loop(pc, sc, k + 1, sub,
                  Append(data, make_entry(pc[k], sc[k], sub)), invalid)

\* The length test of line 77.
counts_differ_ignored(paths_content, scores_content) == FALSE
counts_differ(paths_content, scores_content) ==
    Len(paths_content) # Len(scores_content)

\* The body of the listing loop (lines 48-108) for item number sub.
load_subdir(item, sub, st) ==
    IF ~item.isdir THEN st
    ELSE IF ~(item.has_paths /\ item.has_scores)
         THEN [st EXCEPT !.subdirs_scanned = @ + 1]
    ELSE LET paths_content == read_lines(item.paths, 1)
             scores_content == read_lines(item.scores, 1)
             inv == st.invalid + paths_invalid_lines(item.paths)
                       + scores_invalid_lines(item.scores)
         IN IF counts_differ(paths_content, scores_content)
            THEN [st EXCEPT !.subdirs_scanned = @ + 1, !.found = TRUE,
                            !.invalid = inv]
            ELSE LET z == zip_loop(paths_content, scores_content, 1, sub,
                                   st.data, inv)
                 IN [st EXCEPT !.subdirs_scanned = @ + 1, !.found = TRUE,
                               !.data = z.data, !.invalid = z.invalid]

RECURSIVE load_loop(_, _, _)
load_loop(listing, n, st) ==
    IF n > Len(listing) THEN st
    ELSE load_loop(listing, n + 1, load_subdir(listing[n], n, st))

\* load_audio_data(base_dir) over the directory listing the disk holds.  The
\* result is the returned triple and the invalid-entry count the function logs.
load_audio_data(base_dir, listing) ==
    IF base_dir = "" \/ ~isdir(base_dir)
    THEN [data |-> <<>>, error_msg |-> "not a valid directory",
          subdirs_scanned |-> 0, invalid |-> 0]
    ELSE LET st == load_loop(listing, 1,
                     [data |-> <<>>, invalid |-> 0, found |-> FALSE,
                      subdirs_scanned |-> 0])
         IN [data |-> st.data,
             error_msg |-> IF ~st.found /\ st.data = <<>> THEN "no jsonl found"
                           ELSE IF st.data = <<>> THEN "no valid entries"
                           ELSE "",
             subdirs_scanned |-> st.subdirs_scanned,
             invalid |-> st.invalid]

\* ------------------------------------------------- the filter/sort engine

\* The filter entries of the window, and the score field each bound is on.
BoundFields ==
    {"pq_min", "pq_max", "ce_min", "ce_max", "cu_min", "cu_max", "pc_min", "pc_max"}
FilterFields == {"filename"} \cup BoundFields

\* The columns of the table with the is_numeric flag their headings pass
\* to sort_column (lines 420-430).
Columns == {"filename", "CE", "CU", "PC", "PQ", "path"}
is_numeric(col_key) == col_key \in {"CE", "CU", "PC", "PQ"}
NoColumn == "None"

\* _parse_filter_value: None for a blank text and for one float() rejects.
parse_filter_value_zero(value_str) ==
    IF strip(value_str) = <<>> THEN None
    ELSE IF is_float_text(value_str) THEN Some(float(value_str))
    ELSE Some(0)
parse_filter_value(value_str) ==
    IF strip(value_str) = <<>> THEN None
    ELSE IF is_float_text(value_str) THEN Some(float(value_str))
    ELSE None

\* Lines 561-569: the entries as apply_filters reads them.
read_filters(texts) ==
    [filename |-> strip(lower(texts["filename"])),
     pq_min |-> parse_filter_value(texts["pq_min"]),
     pq_max |-> parse_filter_value(texts["pq_max"]),
     ce_min |-> parse_filter_value(texts["ce_min"]),
     ce_max |-> parse_filter_value(texts["ce_max"]),
     cu_min |-> parse_filter_value(texts["cu_min"]),
     cu_max |-> parse_filter_value(texts["cu_max"]),
     pc_min |-> parse_filter_value(texts["pc_min"]),
     pc_max |-> parse_filter_value(texts["pc_max"])]

\* One test of lines 572-575.
min_above_max(lo, hi) == lo # None /\ hi # None /\ lo[1] > hi[1]
\* Lines 572-575: some min is greater than its max.
range_error_unchecked(f) == FALSE
range_error(f) ==
    \/ min_above_max(f.pq_min, f.pq_max)
    \/ min_above_max(f.ce_min, f.ce_max)
    \/ min_above_max(f.cu_min, f.cu_max)
    \/ min_above_max(f.pc_min, f.pc_max)

\* One test of lines 588-595: the entry is dropped by a min (a max) bound.
below_min(score, lo) == lo # None /\ (score = None \/ score[1] < lo[1])
above_max_exclusive(score, hi) == hi # None /\ (score = None \/ score[1] >= hi[1])
above_max(score, hi) == hi # None /\ (score = None \/ score[1] > hi[1])

\* The body of the loop of lines 582-597: the entry passes all filters.
passes_filters(entry, f) ==
    /\ ~(f.filename # <<>> /\ ~is_substring(f.filename, lower(entry.filename)))
    /\ ~below_min(entry.PQ, f.pq_min) /\ ~above_max(entry.PQ, f.pq_max)
    /\ ~below_min(entry.CE, f.ce_min) /\ ~above_max(entry.CE, f.ce_max)
    /\ ~below_min(entry.CU, f.cu_min) /\ ~above_max(entry.CU, f.cu_max)
    /\ ~below_min(entry.PC, f.pc_min) /\ ~above_max(entry.PC, f.pc_max)

\* The loop of lines 580-597 from entry n on, appending to filtered_data.
RECURSIVE filter_loop(_, _, _, _)
filter_loop(full, f, n, filtered_data) ==
    IF n > Len(full) THEN filtered_data
    ELSE filter_loop(full, f, n + 1,
             IF passes_filters(full[n], f) THEN Append(filtered_data, full[n])
             ELSE filtered_data)

\* filtered_data = [] of line 580.
filtered_data_start_kept(display) == display
filtered_data_start(display) == <<>>

\* apply_filters on the lists, the sort state and the entry texts: the new
\* lists and sort state, and the dialog shown ("" for none).
apply_filters_to_keeping_sort(full, display, sort_column_, sort_reverse, texts) ==
    LET f == read_filters(texts)
    IN IF range_error(f)
       THEN [display |-> display, column |-> sort_column_, reverse |-> sort_reverse,
             dialog |-> "Filter Warning", applied |-> FALSE]
       ELSE [display |-> filter_loop(full, f, 1, filtered_data_start(display)),
             column |-> sort_column_, reverse |-> sort_reverse,
             dialog |-> "", applied |-> TRUE]
apply_filters_to(full, display, sort_column_, sort_reverse, texts) ==
    LET f == read_filters(texts)
    IN IF range_error(f)
       THEN [display |-> display, column |-> sort_column_, reverse |-> sort_reverse,
             dialog |-> "Filter Warning", applied |-> FALSE]
       ELSE [display |-> filter_loop(full, f, 1, filtered_data_start(display)),
             column |-> NoColumn, reverse |-> FALSE,
             dialog |-> "", applied |-> TRUE]

\* float('inf') and float('-inf') of sort_key, beyond every score.
PosInf == 1000000
NegInf == -1000000

\* sort_key of lines 694-703.
sort_key_inf_always(item, col_key, numeric, reverse) ==
    IF numeric
    THEN IF item[col_key] = None THEN PosInf ELSE item[col_key][1]
    ELSE lower(item[col_key])
sort_key(item, col_key, numeric, reverse) ==
    IF numeric
    THEN IF item[col_key] = None
         THEN (IF ~reverse THEN PosInf ELSE NegInf)
         ELSE item[col_key][1]
    ELSE lower(item[col_key])

key_less(a, b, numeric) == IF numeric THEN a < b ELSE str_less(a, b)

\* x goes before y in list.sort(key=sort_key, reverse=reverse).
sorts_before(x, y, col_key, numeric, reverse) ==
    IF reverse
    THEN key_less(sort_key(y, col_key, numeric, reverse),
                  sort_key(x, col_key, numeric, reverse), numeric)
    ELSE key_less(sort_key(x, col_key, numeric, reverse),
                  sort_key(y, col_key, numeric, reverse), numeric)

\* list.sort is stable, also with reverse=True: an element is placed before
\* the first element it sorts before, so after every element equal to it.
insert_sorted_before_equal(sorted, x, col_key, numeric, reverse) ==
    LET later == {i \in 1..Len(sorted) :
                    ~sorts_before(sorted[i], x, col_key, numeric, reverse)}
        pos == IF later = {} THEN Len(sorted) + 1
               ELSE CHOOSE i \in later : \A j \in later : i <= j
    IN SubSeq(sorted, 1, pos - 1) \o <<x>> \o SubSeq(sorted, pos, Len(sorted))
insert_sorted(sorted, x, col_key, numeric, reverse) ==
    LET later == {i \in 1..Len(sorted) :
                    sorts_before(x, sorted[i], col_key, numeric, reverse)}
        pos == IF later = {} THEN Len(sorted) + 1
               ELSE CHOOSE i \in later : \A j \in later : i <= j
    IN SubSeq(sorted, 1, pos - 1) \o <<x>> \o SubSeq(sorted, pos, Len(sorted))

RECURSIVE list_sort(_, _, _, _, _, _)
list_sort(list, n, sorted, col_key, numeric, reverse) ==
    IF n > Len(list) THEN sorted
    ELSE list_sort(list, n + 1,
                   insert_sorted(sorted, list[n], col_key, numeric, reverse),
                   col_key, numeric, reverse)

\* Lines 687-691: the direction of this sort.
next_reverse_always_toggled(current_column, current_reverse, col_key) ==
    ~current_reverse
next_reverse(current_column, current_reverse, col_key) ==
    IF current_column = col_key THEN ~current_reverse ELSE FALSE

\* ---------------------------------------------------- the preprocessing job

\* IntVar.get() on the text of the batch size entry: the integer, or None
\* where Tcl raises TclError, which is no ValueError.
is_int_text(s) ==
    LET d == IF s # <<>> /\ s[1] = "-" THEN Tail(s) ELSE s
    IN d # <<>> /\ \A i \in 1..Len(d) : is_digit(d[i])
int_var_get(s) ==
    IF ~is_int_text(s) THEN None
    ELSE IF s[1] = "-" THEN Some(0 - digits_value(Tail(s)))
    ELSE Some(digits_value(s))

\* Line 1028: the batch size on_ok raises ValueError for.
batch_size_never_too_small(bs) == FALSE
batch_size_too_small(bs) == bs < 1

\* A subdirectory: its name, whether it can be listed and written to, its
\* number of .wav files, and the content of its paths.jsonl (the number of
\* lines) and of its scores.jsonl, None for a file that is not there; and
\* how often the command has been started in it.
Subdir(name, listable, writable, wavs, paths, scores) ==
    [name |-> name, listable |-> listable, writable |-> writable, wavs |-> wavs,
     paths |-> paths, scores |-> scores, spawns |-> 0]

\* The tasks put on the queue: the callable and its argument.
StatusTask(msg) == [func |-> "status_label.config", arg |-> msg]
LogTask(msg) == [func |-> "_do_append_log", arg |-> msg]
ProgressTask(msg) == [func |-> "_update_preprocess_status", arg |-> msg]
BoxTask(title) == [func |-> "messagebox", arg |-> title]

\* create_wav_jsonl(target_dir, ...) with the progress reporter of the job:
\* the count returned, the directory it leaves and the progress reports.
create_wav_jsonl(d) ==
    IF ~d.listable
    THEN [count |-> -1, dir |-> d, reports |-> <<>>]
    ELSE IF ~d.writable
    THEN [count |-> -1, dir |-> d, reports |-> <<ProgressTask("Scanning")>>]
    ELSE [count |-> d.wavs, dir |-> [d EXCEPT !.paths = Some(d.wavs)],
          reports |-> <<ProgressTask("Scanning"),
                        ProgressTask("Finished paths.jsonl")>>]

\* str.endswith().
endswith(s, suffix) ==
    /\ Len(s) >= Len(suffix)
    /\ SubSeq(s, Len(s) - Len(suffix) + 1, Len(s)) = suffix

\* Line 141 of create_wav_jsonl: the names of the listing that end in
\* '.wav' once lowered, in the order of the listing.
wav_filenames_as_spelled(all_files) ==
    SelectSeq(all_files, LAMBDA f : endswith(f, <<".", "w", "a", "v">>))
wav_filenames(all_files) ==
    SelectSeq(all_files, LAMBDA f : endswith(lower(f), <<".", "w", "a", "v">>))

\* Lines 158-162: the line written for a name, the JSON object with the
\* absolute path of the name in target_dir under the key path.
json_line(target_dir, wav_file) == [path |-> target_dir \o <<"/">> \o wav_file]

\* The loop of lines 155-166 from the i-th name on: a line for each name
\* but those whose turn raises (fails holds their places in wav_filenames),
\* which are passed over.
RECURSIVE write_lines(_, _, _, _)
write_lines(target_dir, names, i, fails) ==
    IF i > Len(names) THEN <<>>
    ELSE (IF i \in fails THEN <<>> ELSE <<json_line(target_dir, names[i])>>)
             \o write_lines(target_dir, names, i + 1, fails)

\* create_wav_jsonl(target_dir, ...) name by name: listing is what
\* os.listdir returns (None when it raises), prior the lines of the
\* paths.jsonl there is (None when there is none), opens whether
\* paths.jsonl can be opened for writing. The count returned and the
\* paths.jsonl left.
create_wav_jsonl_of(target_dir, listing, prior, opens, fails) ==
    IF listing = None
    THEN [count |-> -1, manifest |-> prior]
    ELSE IF ~opens
    THEN [count |-> -1, manifest |-> prior]
    ELSE LET lines == write_lines(target_dir, wav_filenames(listing[1]), 1, fails)
         IN [count |-> Len(lines), manifest |-> Some(lines)]

\* What running the command and writing its output can do: how the
\* command ends ("not found" and "permission denied" are the two ways
\* subprocess.run fails to start it), the text captured on its two streams,
\* and what opening scores.jsonl for writing raises.
Outcome(exec, stdout, stderr, write) ==
    [exec |-> exec, stdout |-> stdout, stderr |-> stderr, write |-> write]
Exit0 == Outcome("exit 0", "stdout", <<>>, "ok")
NotFound == Outcome("not found", "", <<>>, "ok")
Exit1 == Outcome("exit 1", "", <<>>, "ok")
WriteFails == Outcome("exit 0", "stdout", <<>>, "OSError")
ToolOutcomes == {Exit0, NotFound, Exit1, WriteFails}

\* The except clauses of run_audio_aes: the message each exception is
\* turned into.
except_message(exc) ==
    CASE exc = "FileNotFoundError" -> "Command not found"
      [] exc = "CalledProcessError" -> "Error running"
      [] OTHER -> "OSError"

\* The result of run_audio_aes when exc is raised on subject: only the
\* message for an OSError carries the text of the exception.
raised(exc, subject, d, spawned) ==
    [success |-> FALSE, msg |-> except_message(exc),
     errno_text |-> IF except_message(exc) = "OSError" THEN subject ELSE "",
     stderr_note |-> None,
     dir |-> IF spawned THEN [d EXCEPT !.spawns = @ + 1] ELSE d,
     spawned |-> spawned]

\* The result of run_audio_aes when an input check fails.
rejected(msg, d) ==
    [success |-> FALSE, msg |-> msg, errno_text |-> "", stderr_note |-> None,
     dir |-> d, spawned |-> FALSE]

\* Variants of write_output and run_command.
write_output_failing_on_stderr(d, o) ==
    IF ~d.writable \/ o.write # "ok"
    THEN raised(IF ~d.writable THEN "OSError" ELSE o.write, "scores.jsonl", d, TRUE)
    ELSE IF o.stderr # <<>>
    THEN raised("CalledProcessError", "", d, TRUE)
    ELSE [success |-> TRUE, msg |-> "Successfully created", errno_text |-> "",
          stderr_note |-> None,
          dir |-> [d EXCEPT !.scores = Some(o.stdout), !.spawns = @ + 1],
          spawned |-> TRUE]

\* Lines 233-240 of run_audio_aes, after the command has exited with 0:
\* scores.jsonl is opened for writing and the captured standard output is
\* written to it; the standard error, stripped, is added to the message.
write_output(d, o) ==
    IF ~d.writable \/ o.write # "ok"
    THEN raised(IF ~d.writable THEN "OSError" ELSE o.write, "scores.jsonl", d, TRUE)
    ELSE [success |-> TRUE, msg |-> "Successfully created", errno_text |-> "",
          stderr_note |-> IF o.stderr # <<>> THEN Some(strip(o.stderr)) ELSE None,
          dir |-> [d EXCEPT !.scores = Some(o.stdout), !.spawns = @ + 1],
          spawned |-> TRUE]

run_command_truncating(d, o) ==
    LET opened == IF d.writable THEN [d EXCEPT !.scores = Some("")] ELSE d
    IN IF o.exec = "not found"
       THEN raised("FileNotFoundError", "", opened, FALSE)
       ELSE IF o.exec = "permission denied"
       THEN raised("OSError", "command", opened, FALSE)
       ELSE IF o.exec = "exit 1"
       THEN raised("CalledProcessError", "", opened, TRUE)
       ELSE write_output(d, o)

\* The try block of run_audio_aes, lines 220-258.
run_command(d, o) ==
    IF o.exec = "not found"
    THEN raised("FileNotFoundError", "", d, FALSE)
    ELSE IF o.exec = "permission denied"
    THEN raised("OSError", "command", d, FALSE)
    ELSE IF o.exec = "exit 1"
    THEN raised("CalledProcessError", "", d, TRUE)
    ELSE write_output(d, o)

\* run_audio_aes(target_dir, ...): success, the message and the directory
\* it leaves, and whether the command was spawned.
run_audio_aes_unchecked(d, outcome) == run_command(d, outcome)
run_audio_aes(d, outcome) ==
    IF d.paths = None
    THEN rejected("Input file not found", d)
    ELSE IF d.paths = Some(0)
    THEN rejected("Input file is empty", d)
    ELSE run_command(d, outcome)

\* The locals of a _perform_preprocessing thread at its start, with the
\* number of calls of self.update_idletasks() it has made, pc being
\* where the thread is.
Worker_counting_from_one(base_dir, audio_aes_cmd, batch_size, overwrite_existing) ==
    [pc |-> "find", base_dir |-> base_dir, audio_aes_cmd |-> audio_aes_cmd,
     batch_size |-> batch_size, overwrite_existing |-> overwrite_existing,
     total_dirs |-> 0, i |-> 0,
     processed_count |-> 1, error_count |-> 0,
     skipped_no_wav_count |-> 0, skipped_existing_count |-> 0,
     update_idletasks |-> 0]
Worker(base_dir, audio_aes_cmd, batch_size, overwrite_existing) ==
    [pc |-> "find", base_dir |-> base_dir, audio_aes_cmd |-> audio_aes_cmd,
     batch_size |-> batch_size, overwrite_existing |-> overwrite_existing,
     total_dirs |-> 0, i |-> 0,
     processed_count |-> 0, error_count |-> 0,
     skipped_no_wav_count |-> 0, skipped_existing_count |-> 0,
     update_idletasks |-> 0]

\* Line 1121: the subdirectory is skipped for the scores it has.
skip_existing_never(overwrite_existing, d) == FALSE
skip_existing(overwrite_existing, d) == ~overwrite_existing /\ d.scores # None

\* Lines 1135-1144: what follows the writing of paths.jsonl.
after_paths_runs_on_error(num_wavs) == IF num_wavs = 0 THEN "no wav" ELSE "run"
after_paths_runs_empty(num_wavs) == IF num_wavs < 0 THEN "error" ELSE "run"
after_paths(num_wavs) ==
    IF num_wavs < 0 THEN "error" ELSE IF num_wavs = 0 THEN "no wav" ELSE "run"

\* continue, and the end of the loop body: the next subdirectory, or the
\* summary after the last.
next_subdir_stops(w) == [w EXCEPT !.pc = "summary"]
next_subdir(w) ==
    IF w.i >= w.total_dirs THEN [w EXCEPT !.pc = "summary"]
    ELSE [w EXCEPT !.i = @ + 1, !.pc = "subdir"]

\* The loop of process_queue from the head of the queue on, up to the task
\* that opens a modal dialog.
RECURSIVE drain(_, _, _)
drain(queue, log, status) ==
    IF queue = <<>>
    THEN [queue |-> queue, log |-> log, status |-> status, dialog |-> ""]
    ELSE LET task == Head(queue)
         IN CASE task.func = "status_label.config" ->
                     drain(Tail(queue), log, task.arg)
              [] task.func = "_do_append_log" ->
                     drain(Tail(queue), Append(log, task.arg), status)
              [] task.func = "_update_preprocess_status" ->
                     drain(Append(Tail(queue), StatusTask(task.arg)), log, status)
              [] OTHER ->
                     [queue |-> Tail(queue), log |-> log, status |-> status,
                      dialog |-> task.arg]

\* ------------------------------------------------------------------ state

VARIABLES
    disk,                  \* os.listdir(base_dir) with each subdirectory's two files
    ld_arg,                \* the base_dir of the last load_audio_data call
    ld_result,             \* what that call returned, and the invalid count it logged
    ld_done,               \* whether load_audio_data has been called
    selected_directory,    \* self.selected_directory
    full_audio_data,       \* self.full_audio_data
    display_audio_data,    \* self.display_audio_data
    current_sort_column,   \* self.current_sort_column
    current_sort_reverse,  \* self.current_sort_reverse
    filter_text,           \* the text of each filter entry
    messagebox,            \* the modal dialog a handler is showing, "" for none
    apply_streak,          \* successful apply_filters runs in a row on the same
                           \* entries and full list (2 stands for two or more)
    sort_streak,           \* the column of the last sort_column call that had
                           \* something to sort, and the calls on it in a row
                           \* since the last filtering
    audio_aes_command,     \* self.audio_aes_command, the text of its entry
    audio_aes_batch_size,  \* self.audio_aes_batch_size, the text of its entry
    preprocess_overwrite,  \* self.preprocess_overwrite
    dialog_open,           \* the Preprocessing Options dialog is up
    log_text,              \* the lines of the log widget
    status_label,          \* the text of the status bar
    task_queue,            \* self.task_queue
    queue_dialog,          \* the modal dialog process_queue is showing, "" for none
    workers,               \* the _perform_preprocessing threads started so far
    dialogs_opened,        \* how often the options dialog has been opened
    tree,                  \* the subdirectories of the base directory, sorted
    window,                \* the main window: "open", "destroyed" by _on_closing,
                           \* or "exited" with the process
    aes_call,              \* a call of run_audio_aes on its own: None before
                           \* it, then what the command did, the directory
                           \* before the call and what the call returned
    wav_call               \* a call of create_wav_jsonl on its own: None
                           \* before it, then what the directory was like,
                           \* what the call returned and the paths.jsonl left

load_vars == <<ld_arg, ld_result, ld_done>>
gui_vars ==
    <<selected_directory, full_audio_data, display_audio_data, current_sort_column,
      current_sort_reverse, filter_text, messagebox, apply_streak, sort_streak>>
pre_vars ==
    <<audio_aes_command, audio_aes_batch_size, preprocess_overwrite, dialog_open,
      log_text, status_label, task_queue, queue_dialog, workers, dialogs_opened,
      tree, window, aes_call, wav_call>>
vars == <<disk, load_vars, gui_vars, pre_vars>>

NoResult ==
    [data |-> <<>>, error_msg |-> "", subdirs_scanned |-> 0, invalid |-> 0]

\* The reader before any call.
LoadIdle == ld_arg = "" /\ ld_result = NoResult /\ ld_done = FALSE

\* AudioReviewApp.__init__ (lines 268-278), with empty filter entries.
WindowInit ==
    /\ full_audio_data = <<>>
    /\ display_audio_data = <<>>
    /\ current_sort_column = NoColumn
    /\ current_sort_reverse = FALSE
    /\ filter_text = [f \in FilterFields |-> <<>>]
    /\ messagebox = ""
    /\ apply_streak = 0
    /\ sort_streak = [col |-> NoColumn, n |-> 0]
GuiInit == selected_directory = "" /\ WindowInit

\* Lines 276-283: the job's options and the queue as __init__ leaves them.
DefaultCommand == <<"a">>
DefaultBatchSize == <<"1", "0", "0">>
JobInit ==
    /\ audio_aes_command = DefaultCommand
    /\ audio_aes_batch_size = DefaultBatchSize
    /\ preprocess_overwrite = FALSE
    /\ dialog_open = FALSE
    /\ log_text = <<>>
    /\ status_label = ""
    /\ task_queue = <<>>
    /\ queue_dialog = ""
    /\ workers = <<>>
    /\ dialogs_opened = 0
    /\ window = "open"
    /\ aes_call = None
    /\ wav_call = None
\* No job is run.
JobIdle == JobInit /\ tree = <<>>

\* No modal window keeps the user from the main window.
MainWindowFree ==
    messagebox = "" /\ queue_dialog = "" /\ ~dialog_open /\ window = "open"

\* ------------------------------------------- the reader on bounded inputs

SeqsUpTo(S, n) == UNION {[1..k -> S] : k \in 0..n}

ManifestLines ==
    {BadLine, OtherLine, NoPathLine, PathLine(PathAb), PathLine(PathMissing),
     PathLine(PathDir)}
ScoresLines ==
    {BadLine, OtherLine, EmptyScoreLine, ScoreLine(Some(1), Some(2))}

\* What the base directory may hold beside the subdirectory under study.
GoodDir == Item(TRUE, TRUE, <<PathLine(PathB)>>, TRUE, <<ScoreLine(Some(2), None)>>)
OtherItems ==
    {Item(FALSE, FALSE, <<>>, FALSE, <<>>), Item(TRUE, FALSE, <<>>, FALSE, <<>>),
     GoodDir}

\* The listings of the base directory: the subdirectory under study alone,
\* or with one other entry listed before or after it.
Listings(subject) ==
    {<<subject>>}
    \cup {<<o, subject>> : o \in OtherItems}
    \cup {<<subject, o>> : o \in OtherItems}

\* The subdirectory under study: each file absent, or any lines up to MaxLines.
InitLoad ==
    /\ \E hp, hs \in BOOLEAN :
       \E ps \in SeqsUpTo(ManifestLines, MaxLines) :
       \E ss \in SeqsUpTo(ScoresLines, MaxLines) :
          /\ (~hp => ps = <<>>) /\ (~hs => ss = <<>>)
          /\ disk \in Listings(Item(TRUE, hp, ps, hs, ss))
    /\ LoadIdle
    /\ GuiInit
    /\ JobIdle

\* A call load_audio_data(b).
call_load_audio_data(b) ==
    /\ ~ld_done
    /\ ld_arg' = b
    /\ ld_result' = load_audio_data(b, disk)
    /\ ld_done' = TRUE
    /\ UNCHANGED <<disk, gui_vars, pre_vars>>

NextLoad == \E b \in {"", "nodir", "base"} : call_load_audio_data(b)

SpecLoad == InitLoad /\ [][NextLoad]_vars

\* --------------------------------------------- what the reader is held to

HasPair(item) == item.isdir /\ item.has_paths /\ item.has_scores
IsValid(lines, n) == lines[n].kind # "bad"
ValidCount(lines) == Cardinality({n \in 1..Len(lines) : IsValid(lines, n)})
Mismatch(item) == HasPair(item) /\ ValidCount(item.paths) # ValidCount(item.scores)
NumDirs(listing) == Cardinality({s \in 1..Len(listing) : listing[s].isdir})

\* The position of valid line n among the valid lines of its file.
Rank(lines, n) == Cardinality({m \in 1..n : IsValid(lines, m)})
\* The valid line of that position (used only where it exists).
AtRank(lines, k) ==
    lines[CHOOSE n \in 1..Len(lines) : IsValid(lines, n) /\ Rank(lines, n) = k]

\* The path of manifest line n names a regular file.
EntryIsFile(item, n) ==
    /\ item.paths[n].kind = "obj"
    /\ get(item.paths[n].obj, "path") \in RegularFiles
\* Handling manifest line n raises: the line, or the scores value paired
\* with an existing path, is no JSON object.
Raises(item, n) ==
    \/ item.paths[n].kind = "other"
    \/ /\ EntryIsFile(item, n)
       /\ AtRank(item.scores, Rank(item.paths, n)).kind = "other"
\* Manifest line n of a subdirectory with equal counts is reached.
Reached(item, n) ==
    \A m \in 1..(n - 1) : IsValid(item.paths, m) => ~Raises(item, m)
HasRecord(s, n) ==
    \E i \in 1..Len(ld_result.data) :
        ld_result.data[i].sub = s /\ ld_result.data[i].pline = n
RecordsOf(s) == {i \in 1..Len(ld_result.data) : ld_result.data[i].sub = s}
\* A subdirectory every entry of which is loadable.
CleanPair(item) ==
    /\ HasPair(item) /\ ~Mismatch(item)
    /\ \A n \in 1..Len(item.paths) : IsValid(item.paths, n) => EntryIsFile(item, n)
    /\ \A n \in 1..Len(item.scores) : item.scores[n].kind # "other"
Loaded == ld_done /\ ld_arg = "base"

\* C1: a subdirectory whose two files differ in their number of valid lines
\* contributes no record, and the other subdirectories are still processed:
\* all are scanned and every loadable one contributes all its entries.
C1_MismatchRejected ==
    Loaded =>
        \A s \in 1..Len(disk) : Mismatch(disk[s]) =>
            /\ RecordsOf(s) = {}
            /\ ld_result.subdirs_scanned = NumDirs(disk)
            /\ \A t \in 1..Len(disk) : CleanPair(disk[t]) =>
                   Cardinality(RecordsOf(t)) = ValidCount(disk[t].paths)

C1_Witness ==
    /\ Loaded
    /\ \E s, t \in 1..Len(disk) :
          s < t /\ Mismatch(disk[s]) /\ ValidCount(disk[s].paths) > 0
                /\ RecordsOf(t) # {}

C3_SameLineNumber ==
    Loaded =>
        \A i \in 1..Len(ld_result.data) :
            ld_result.data[i].sline = ld_result.data[i].pline

\* The invalid entries the zip loop counts in one subdirectory.
PairInvalid(item) ==
    IF Mismatch(item) THEN 0
    ELSE Cardinality({n \in 1..Len(item.paths) :
            /\ IsValid(item.paths, n) /\ Reached(item, n)
            /\ (~EntryIsFile(item, n) \/ Raises(item, n))})

RECURSIVE SumOver(_, _, _)
SumOver(F(_), listing, n) ==
    IF n > Len(listing) THEN 0
    ELSE (IF HasPair(listing[n]) THEN F(listing[n]) ELSE 0)
         + SumOver(F, listing, n + 1)

InvalidPathsOnly(item) == NumBad(item.paths) + PairInvalid(item)
InvalidBothFiles(item) ==
    NumBad(item.paths) + NumBad(item.scores) + PairInvalid(item)

\* C4 as claimed: every malformed line, of the manifest or of the scores
\* file, adds one to the invalid-entry count.
C4_BadLinesAllCounted ==
    Loaded => ld_result.invalid = SumOver(InvalidBothFiles, disk, 1)

\* C4 as amended: a malformed line is skipped and the lines after it are
\* still read (a loadable subdirectory contributes one record per valid
\* manifest line); a malformed manifest line adds one to the invalid-entry
\* count and a malformed scores line adds nothing.
C4_BadManifestLinesCounted ==
    Loaded =>
        /\ ld_result.invalid = SumOver(InvalidPathsOnly, disk, 1)
        /\ \A t \in 1..Len(disk) : CleanPair(disk[t]) =>
               \A n \in 1..Len(disk[t].paths) :
                   IsValid(disk[t].paths, n) => HasRecord(t, n)

C4_Witness ==
    /\ Loaded
    /\ \E s \in 1..Len(disk) :
          /\ Len(disk[s].paths) = 2 /\ Len(disk[s].scores) = 2
          /\ disk[s].paths[1].kind = "bad" /\ disk[s].scores[1].kind = "bad"
          /\ HasRecord(s, 2)
          /\ ld_result.invalid = 1

\* ------------------------------------------------------------ the window

\* Most filter entries filled at once, and the length up to which a run of
\* sort_column calls on one column is counted (beyond it the count keeps
\* its parity).
MaxActiveFilters == 2
MaxStreak == 3

\* Disks the window is run on: one subdirectory of three scored files (a
\* score absent in two of them, equal scores in others), and a rejected
\* subdirectory beside a good one.
S1 == Some(1)
S2 == Some(2)
ThreeFiles ==
    <<Item(TRUE,
           TRUE, <<PathLine(PathAb), PathLine(PathBa), PathLine(PathB)>>,
           TRUE, <<ScoreLine4(S1, S1, S2, S2), ScoreLine4(S2, None, S1, S2),
                   ScoreLine4(None, S2, S1, S1)>>)>>
RejectedAndGood ==
    <<Item(TRUE, TRUE, <<PathLine(PathAb), PathLine(PathBa)>>,
           TRUE, <<ScoreLine(S1, S1)>>),
      GoodDir>>
GuiDisks == {ThreeFiles, RejectedAndGood}

\* What the user types into the entries: a filename part, a min bound, a
\* max bound, and in the PQ entries also a text that is no number.
FilenameTexts == {<<>>, <<"A">>, <<" ", "a", "b">>}
MinTexts == {<<>>, <<"2">>}
MaxTexts == {<<>>, <<"1">>}
NoNumber == <<"x">>
TextsOf(field) ==
    CASE field = "filename" -> FilenameTexts
      [] field = "pq_min" -> MinTexts \cup {NoNumber}
      [] field = "pq_max" -> MaxTexts \cup {NoNumber}
      [] field \in {"ce_min", "cu_min", "pc_min"} -> MinTexts
      [] OTHER -> MaxTexts
ActiveFilters(texts) == Cardinality({f \in FilterFields : texts[f] # <<>>})

InitGui ==
    /\ disk \in GuiDisks
    /\ LoadIdle
    /\ GuiInit
    /\ JobIdle

bump(n) == IF n >= MaxStreak THEN MaxStreak - 1 ELSE n + 1

\* The state apply_filters leaves, given what it computed.
FilterApplied(r) ==
    /\ display_audio_data' = r.display
    /\ current_sort_column' = r.column
    /\ current_sort_reverse' = r.reverse
    /\ messagebox' = r.dialog
    /\ sort_streak' = IF r.applied THEN [col |-> NoColumn, n |-> 0] ELSE sort_streak

\* browse_directory, the dialog returning directory ("" when cancelled).
browse_directory(directory) ==
    /\ MainWindowFree
    /\ IF directory # ""
       THEN /\ selected_directory' = directory
            /\ full_audio_data' = <<>>
            /\ display_audio_data' = <<>>
       ELSE UNCHANGED <<selected_directory, full_audio_data, display_audio_data>>
    /\ apply_streak' = 0
    /\ UNCHANGED <<current_sort_column, current_sort_reverse, filter_text,
                   messagebox, sort_streak, disk, load_vars, pre_vars>>

\* load_and_display_data.
load_and_display_data ==
    /\ MainWindowFree
    /\ UNCHANGED <<selected_directory, filter_text, disk, load_vars, pre_vars>>
    /\ IF selected_directory = ""
       THEN /\ messagebox' = "No Directory"
            /\ apply_streak' = 0
            /\ UNCHANGED <<full_audio_data, display_audio_data, current_sort_column,
                           current_sort_reverse, sort_streak>>
       ELSE LET loaded == load_audio_data(selected_directory, disk)
            IN IF loaded.error_msg # ""
               THEN /\ messagebox' = "Loading Error"
                    /\ full_audio_data' = <<>>
                    /\ display_audio_data' = <<>>
                    /\ apply_streak' = 0
                    /\ UNCHANGED <<current_sort_column, current_sort_reverse,
                                   sort_streak>>
               ELSE IF loaded.data = <<>>
               THEN /\ messagebox' = "No Data"
                    /\ full_audio_data' = <<>>
                    /\ display_audio_data' = <<>>
                    /\ apply_streak' = 0
                    /\ UNCHANGED <<current_sort_column, current_sort_reverse,
                                   sort_streak>>
               ELSE LET r == apply_filters_to(loaded.data, <<>>, current_sort_column,
                                              current_sort_reverse, filter_text)
                    IN /\ full_audio_data' = loaded.data
                       /\ FilterApplied(r)
                       /\ apply_streak' = IF r.applied THEN 1 ELSE 0

\* The user edits one filter entry.
set_filter(field, text) ==
    /\ MainWindowFree
    /\ text # filter_text[field]
    /\ filter_text' = [filter_text EXCEPT ![field] = text]
    /\ ActiveFilters(filter_text') <= MaxActiveFilters
    /\ apply_streak' = 0
    /\ UNCHANGED <<selected_directory, full_audio_data, display_audio_data,
                   current_sort_column, current_sort_reverse, messagebox,
                   sort_streak, disk, load_vars, pre_vars>>

\* apply_filters, from its button.
apply_filters ==
    /\ MainWindowFree
    /\ LET r == apply_filters_to(full_audio_data, display_audio_data,
                                 current_sort_column, current_sort_reverse,
                                 filter_text)
       IN /\ FilterApplied(r)
          /\ apply_streak' = IF ~r.applied THEN 0
                             ELSE IF apply_streak >= 1 THEN 2 ELSE 1
    /\ UNCHANGED <<selected_directory, full_audio_data, filter_text, disk, load_vars,
                   pre_vars>>

\* clear_filters: the entries are emptied, then apply_filters runs.
clear_filters ==
    /\ MainWindowFree
    /\ LET cleared == [f \in FilterFields |-> <<>>]
           r == apply_filters_to(full_audio_data, display_audio_data,
                                 current_sort_column, current_sort_reverse, cleared)
       IN /\ filter_text' = cleared
          /\ FilterApplied(r)
          /\ apply_streak' =
                 IF filter_text = cleared /\ apply_streak >= 1 THEN 2 ELSE 1
    /\ UNCHANGED <<selected_directory, full_audio_data, disk, load_vars, pre_vars>>

\* sort_column(col_key, is_numeric), from the heading of a column.
sort_column(col_key) ==
    /\ MainWindowFree
    /\ apply_streak' = 0
    /\ UNCHANGED <<selected_directory, full_audio_data, filter_text, messagebox,
                   disk, load_vars, pre_vars>>
    /\ sort_streak' =
          IF display_audio_data = <<>> THEN sort_streak
          ELSE [col |-> col_key,
                n |-> IF sort_streak.col = col_key THEN bump(sort_streak.n) ELSE 1]
    /\ IF display_audio_data = <<>>
       THEN UNCHANGED <<display_audio_data, current_sort_column, current_sort_reverse>>
       ELSE LET reverse == next_reverse(current_sort_column, current_sort_reverse,
                                        col_key)
            IN /\ display_audio_data' =
                      list_sort(display_audio_data, 1, <<>>, col_key,
                                is_numeric(col_key), reverse)
               /\ current_sort_column' = col_key
               /\ current_sort_reverse' = reverse

\* The user closes the modal dialog a handler showed.
dismiss_messagebox ==
    /\ messagebox # ""
    /\ messagebox' = ""
    /\ UNCHANGED <<selected_directory, full_audio_data, display_audio_data,
                   current_sort_column, current_sort_reverse, filter_text,
                   apply_streak, sort_streak, disk, load_vars, pre_vars>>

NextGui ==
    \/ \E d \in {"", "base", "nodir"} : browse_directory(d)
    \/ load_and_display_data
    \/ \E f \in FilterFields : \E t \in TextsOf(f) : set_filter(f, t)
    \/ apply_filters
    \/ clear_filters
    \/ \E c \in Columns : sort_column(c)
    \/ dismiss_messagebox

SpecGui == InitGui /\ [][NextGui]_vars

\* ---------------------------------------------------- claims on the window

\* The number a typed bound stands for, and the name part a typed filename
\* filter asks for, read off the typed texts themselves.
TypedNumbers == {<<"1">>, <<"2">>}
TypedNumber(t) == IF t = <<"1">> THEN 1 ELSE 2
TypedNamePart(t) ==
    CASE t = <<"A">> -> <<"a">>
      [] t = <<" ", "a", "b">> -> <<"a", "b">>
      [] OTHER -> <<>>
MinEntry(k) ==
    CASE k = "PQ" -> "pq_min" [] k = "CE" -> "ce_min"
      [] k = "CU" -> "cu_min" [] OTHER -> "pc_min"
MaxEntry(k) ==
    CASE k = "PQ" -> "pq_max" [] k = "CE" -> "ce_max"
      [] k = "CU" -> "cu_max" [] OTHER -> "pc_max"
ScoreFields == {"CE", "CU", "PC", "PQ"}

\* needle occurs in hay.
Contains(hay, needle) ==
    \E k \in 0..(Len(hay) - Len(needle)) :
        SubSeq(hay, k + 1, k + Len(needle)) = needle

\* Every bound entry is blank or a number.
WellFormed(texts) ==
    \A f \in BoundFields : texts[f] = <<>> \/ texts[f] \in TypedNumbers
\* Some score field has a min bound above its max bound.
MinOverMax(texts) ==
    \E k \in ScoreFields :
        /\ texts[MinEntry(k)] \in TypedNumbers
        /\ texts[MaxEntry(k)] \in TypedNumbers
        /\ TypedNumber(texts[MinEntry(k)]) > TypedNumber(texts[MaxEntry(k)])
\* Some bound entry holds a text that is no number.
HasInvalidBound(texts) == \E f \in BoundFields : texts[f] = NoNumber

\* The record satisfies every predicate the entries supply.
Satisfies(r, texts) ==
    /\ Contains(lower(r.filename), TypedNamePart(texts["filename"]))
    /\ \A k \in ScoreFields :
          /\ texts[MinEntry(k)] \in TypedNumbers
                => r[k] # None /\ r[k][1] >= TypedNumber(texts[MinEntry(k)])
          /\ texts[MaxEntry(k)] \in TypedNumbers
                => r[k] # None /\ r[k][1] <= TypedNumber(texts[MaxEntry(k)])
Matching(full, texts) ==
    LET Test(r) == Satisfies(r, texts) IN SelectSeq(full, Test)

\* C5: when the bound entries are blank or numbers and no min is above its
\* max, apply_filters sets the displayed list to the records of the full list,
\* in the order of the full list, that contain the filename part whatever the
\* case and lie within every bound given, both ends included; a record
\* without the score a bound is on is left out, and with no entry filled
\* the displayed list is the full list.
C5_DisplayIsMatchingSubsequence ==
    [][(apply_filters /\ WellFormed(filter_text) /\ ~MinOverMax(filter_text))
          => /\ display_audio_data' = Matching(full_audio_data, filter_text)
             /\ (\A f \in FilterFields : filter_text[f] = <<>>)
                   => display_audio_data' = full_audio_data]_vars

\* Filename part "A" and CU max 1 were applied to the three files: Ab (CU 1,
\* on the bound) is shown, Ba (no CU) and b (no "a") are not.
C5_Witness ==
    /\ apply_streak >= 1
    /\ Len(full_audio_data) = 3
    /\ filter_text["filename"] = <<"A">>
    /\ filter_text["cu_max"] = <<"1">>
    /\ Len(display_audio_data) = 1
    /\ display_audio_data[1].path = PathAb

\* C6: apply_filters run right after a filter application on the same
\* entries and the same full list leaves the displayed list as that first
\* application left it.
C6_ApplyTwiceIsApplyOnce ==
    [][(apply_filters /\ apply_streak >= 1)
          => display_audio_data' = display_audio_data]_vars

\* The same filter was applied twice in a row and shows a part of the records.
C6_Witness ==
    /\ apply_streak = 2
    /\ display_audio_data # <<>>
    /\ Len(display_audio_data) < Len(full_audio_data)

\* C7: with a min bound above the max bound of the same score field,
\* apply_filters shows the warning and leaves the displayed list and the
\* full list as they were.
C7_MinAboveMaxLeavesLists ==
    [][(apply_filters /\ MinOverMax(filter_text))
          => /\ messagebox' = "Filter Warning"
             /\ display_audio_data' = display_audio_data
             /\ full_audio_data' = full_audio_data]_vars

\* The warning is up for PQ min 2 above PQ max 1, and the three records
\* shown before are still shown.
C7_Witness ==
    /\ messagebox = "Filter Warning"
    /\ filter_text["pq_min"] = <<"2">>
    /\ filter_text["pq_max"] = <<"1">>
    /\ Len(display_audio_data) = 3

\* C8 as stated: apply_filters with a bound entry that is no number leaves
\* the displayed list and the sort state as they were.
C8_InvalidBoundRejected ==
    [][(apply_filters /\ HasInvalidBound(filter_text))
          => /\ display_audio_data' = display_audio_data
             /\ current_sort_column' = current_sort_column
             /\ current_sort_reverse' = current_sort_reverse]_vars

\* The entries with every text that is no number blanked.
Blanked(texts) ==
    [f \in FilterFields |-> IF f \in BoundFields /\ texts[f] = NoNumber
                            THEN <<>> ELSE texts[f]]

\* C8: apply_filters takes a bound entry that is no number for a blank
\* one: it leaves the lists, the sort state and the dialog exactly as it
\* does with that entry blank, and given no min above a max among the other
\* bounds it shows no dialog and filters by the remaining predicates.
C8_InvalidBoundIsNoBound ==
    [][(apply_filters /\ HasInvalidBound(filter_text))
          => LET r == apply_filters_to(full_audio_data, display_audio_data,
                                       current_sort_column, current_sort_reverse,
                                       Blanked(filter_text))
             IN /\ display_audio_data' = r.display
                /\ current_sort_column' = r.column
                /\ current_sort_reverse' = r.reverse
                /\ messagebox' = r.dialog
                /\ full_audio_data' = full_audio_data
                /\ ~MinOverMax(filter_text)
                     => /\ messagebox' = ""
                        /\ display_audio_data' =
                              Matching(full_audio_data, Blanked(filter_text))]_vars

\* "x" as PQ max and the filename part "A" were applied to the three files:
\* no dialog, and the two files with an "a" in the name are shown.
C8_Witness ==
    /\ apply_streak >= 1
    /\ messagebox = ""
    /\ filter_text["pq_max"] = NoNumber
    /\ filter_text["filename"] = <<"A">>
    /\ Len(full_audio_data) = 3
    /\ Len(display_audio_data) = 2

\* The value of the column is there to compare.
Present(r, c) == ~is_numeric(c) \/ r[c] # None
\* a's value in column c is at most b's (texts compared in lower case).
ValueAtMost(a, b, c) ==
    IF is_numeric(c) THEN a[c][1] <= b[c][1]
    ELSE lower(a[c]) = lower(b[c]) \/ str_less(lower(a[c]), lower(b[c]))
Ascending(list, c) ==
    \A i, j \in 1..Len(list) :
        (i < j /\ Present(list[i], c) /\ Present(list[j], c))
            => ValueAtMost(list[i], list[j], c)
Descending(list, c) ==
    \A i, j \in 1..Len(list) :
        (i < j /\ Present(list[i], c) /\ Present(list[j], c))
            => ValueAtMost(list[j], list[i], c)

\* C10: of the sort_column calls made on one column in a row (no call on
\* another column and no filter application between them) on a list that is
\* not empty, the first, third, ... leave the list ascending and the
\* second, fourth, ... leave it descending in that column.
C10_SameColumnToggles ==
    [][\A c \in Columns :
          (sort_column(c) /\ display_audio_data # <<>>)
             => IF sort_streak'.n % 2 = 1
                THEN /\ ~current_sort_reverse'
                     /\ Ascending(display_audio_data', c)
                ELSE /\ current_sort_reverse'
                     /\ Descending(display_audio_data', c)]_vars

\* Three calls in a row on the filename column: the three files are shown
\* in ascending order of their names, Ab, b, Ba.
C10_Witness ==
    /\ sort_streak = [col |-> "filename", n |-> 3]
    /\ ~current_sort_reverse
    /\ Len(display_audio_data) = 3
    /\ display_audio_data[1].path = PathAb
    /\ display_audio_data[2].path = PathB
    /\ display_audio_data[3].path = PathBa

\* The place of record r in a list that holds it once.
Pos(list, r) == CHOOSE i \in 1..Len(list) : list[i] = r
\* a and b have equal sort keys in column c: equal values, or both absent,
\* in a score column, and texts equal in lower case elsewhere.
SameKey(a, b, c) ==
    IF is_numeric(c) THEN a[c] = b[c] ELSE lower(a[c]) = lower(b[c])
Permutation(old, new) ==
    /\ Len(new) = Len(old)
    /\ \A i \in 1..Len(old) : \E j \in 1..Len(new) : new[j] = old[i]

\* C11: a sort_column call on a list that is not empty, ascending or
\* descending, rearranges the displayed records and keeps every two records
\* with equal keys in the order they had before the call.
C11_SortIsStable ==
    [][\A c \in Columns :
          (sort_column(c) /\ display_audio_data # <<>>)
             => /\ Permutation(display_audio_data, display_audio_data')
                /\ \A i, j \in 1..Len(display_audio_data) :
                      (i < j /\ SameKey(display_audio_data[i],
                                        display_audio_data[j], c))
                         => Pos(display_audio_data', display_audio_data[i])
                              < Pos(display_audio_data', display_audio_data[j])]_vars

\* A descending sort by PQ of a list that showed Ba before Ab: the two
\* files, both with PQ 2, are still in that order, which is not the order
\* they were loaded in.
C11_Witness ==
    /\ sort_streak = [col |-> "PQ", n |-> 2]
    /\ current_sort_reverse
    /\ Len(display_audio_data) = 3
    /\ display_audio_data[1].path = PathBa
    /\ display_audio_data[2].path = PathAb
    /\ display_audio_data[3].path = PathB

\* Every record without a value in column c comes after every record with
\* one, or before every record with one.
AbsentLast(list, c) ==
    \A i, j \in 1..Len(list) :
        (i < j /\ list[i][c] = None) => list[j][c] = None
AbsentFirst(list, c) ==
    \A i, j \in 1..Len(list) :
        (i < j /\ list[j][c] = None) => list[i][c] = None

\* C12 as stated: a sort by a score column leaves the records without a
\* value at the end when ascending and at the beginning when descending.
C12_AbsentFirstWhenDescending ==
    [][\A c \in ScoreFields :
          (sort_column(c) /\ display_audio_data # <<>>)
             => IF current_sort_reverse'
                THEN AbsentFirst(display_audio_data', c)
                ELSE AbsentLast(display_audio_data', c)]_vars

\* C12: a sort by a score column leaves the records without a value in
\* that column at the end of the list, ascending and descending alike.
C12_AbsentAlwaysLast ==
    [][\A c \in ScoreFields :
          (sort_column(c) /\ display_audio_data # <<>>)
             => AbsentLast(display_audio_data', c)]_vars

\* A descending sort by CU of the three files: Ba, which has no CU, is the
\* last of them.
C12_Witness ==
    /\ sort_streak = [col |-> "CU", n |-> 2]
    /\ current_sort_reverse
    /\ Len(display_audio_data) = 3
    /\ display_audio_data[1].CU # None
    /\ display_audio_data[2].CU # None
    /\ display_audio_data[3].CU = None

\* ------------------------------------------------ the job and its dialog

\* How often the options dialog is opened, and how many jobs are started.
MaxDialogs == 2
MaxRuns == 1

\* Base directories the job is run on: a scored subdirectory beside one
\* without .wav files, a single subdirectory not yet processed, and a
\* subdirectory that takes no paths.jsonl before one that does.
ScoredAndEmpty ==
    <<Subdir("s1", TRUE, TRUE, 1, None, Some("old")),
      Subdir("s2", TRUE, TRUE, 0, None, None)>>
Unprocessed == <<Subdir("s1", TRUE, TRUE, 2, None, None)>>
ReadOnlyFirst ==
    <<Subdir("s1", TRUE, FALSE, 1, None, None),
      Subdir("s2", TRUE, TRUE, 1, None, None)>>
JobTrees == {ScoredAndEmpty, Unprocessed, ReadOnlyFirst}

\* What the user types into the two entries of the dialog.
CommandTexts == {DefaultCommand, <<" ">>}
BatchSizeTexts == {DefaultBatchSize, <<"0">>, <<"-", "1">>, <<"x">>}

InitPre ==
    /\ disk = <<>>
    /\ LoadIdle
    /\ selected_directory \in {"", "base"}
    /\ WindowInit
    /\ JobInit
    /\ tree \in JobTrees

job_gui_vars ==
    <<selected_directory, full_audio_data, display_audio_data, current_sort_column,
      current_sort_reverse, filter_text, apply_streak, sort_streak, dialogs_opened,
      window, aes_call, wav_call>>

\* run_preprocessing_thread up to dialog.wait_window(): the dialog opens
\* unless the base directory is refused.
run_preprocessing_thread ==
    /\ MainWindowFree
    /\ dialogs_opened < MaxDialogs
    /\ IF selected_directory = "" \/ ~isdir(selected_directory)
       THEN /\ messagebox' = "Invalid Directory"
            /\ UNCHANGED <<dialog_open, dialogs_opened>>
       ELSE /\ dialog_open' = TRUE
            /\ dialogs_opened' = dialogs_opened + 1
            /\ UNCHANGED messagebox
    /\ UNCHANGED <<audio_aes_command, audio_aes_batch_size, preprocess_overwrite,
                   log_text, status_label, task_queue, queue_dialog, workers, tree,
                   selected_directory, full_audio_data, display_audio_data,
                   current_sort_column, current_sort_reverse, filter_text,
                   apply_streak, sort_streak, window, aes_call, wav_call, disk,
                   load_vars>>

\* The user edits the options of the dialog.
DialogFree == dialog_open /\ messagebox = "" /\ queue_dialog = ""
set_command(text) ==
    /\ DialogFree
    /\ text # audio_aes_command
    /\ audio_aes_command' = text
    /\ UNCHANGED <<audio_aes_batch_size, preprocess_overwrite, dialog_open, log_text,
                   status_label, task_queue, queue_dialog, workers, tree, messagebox,
                   job_gui_vars, disk, load_vars>>
set_batch_size(text) ==
    /\ DialogFree
    /\ text # audio_aes_batch_size
    /\ audio_aes_batch_size' = text
    /\ UNCHANGED <<audio_aes_command, preprocess_overwrite, dialog_open, log_text,
                   status_label, task_queue, queue_dialog, workers, tree, messagebox,
                   job_gui_vars, disk, load_vars>>
toggle_overwrite ==
    /\ DialogFree
    /\ preprocess_overwrite' = ~preprocess_overwrite
    /\ UNCHANGED <<audio_aes_command, audio_aes_batch_size, dialog_open, log_text,
                   status_label, task_queue, queue_dialog, workers, tree, messagebox,
                   job_gui_vars, disk, load_vars>>

\* on_ok, and for accepted options the rest of run_preprocessing_thread
\* that wait_window() returns to once the dialog is destroyed (lines
\* 1050-1077): the log is cleared, the start is logged, the thread starts.
\* No more than runs threads are started.
on_ok_within(runs) ==
    /\ DialogFree
    /\ UNCHANGED <<audio_aes_command, audio_aes_batch_size, preprocess_overwrite,
                   status_label, queue_dialog, tree, job_gui_vars, disk, load_vars>>
    /\ LET aes_cmd == strip(audio_aes_command)
           bs == int_var_get(audio_aes_batch_size)
       IN IF aes_cmd = <<>>
          THEN /\ messagebox' = "Invalid Input"
               /\ UNCHANGED <<dialog_open, log_text, task_queue, workers>>
          ELSE IF bs = None
          THEN UNCHANGED <<messagebox, dialog_open, log_text, task_queue, workers>>
          ELSE IF batch_size_too_small(bs[1])
          THEN /\ messagebox' = "Invalid Input"
               /\ UNCHANGED <<dialog_open, log_text, task_queue, workers>>
          ELSE /\ Len(workers) < runs
               /\ dialog_open' = FALSE
               /\ log_text' = <<>>
               /\ task_queue' = task_queue \o
                      <<StatusTask("Starting preprocessing job"),
                        LogTask("Starting New Preprocessing Job")>>
               /\ workers' = Append(workers,
                      Worker(selected_directory, aes_cmd, bs[1], preprocess_overwrite))
               /\ UNCHANGED messagebox

on_ok == on_ok_within(MaxRuns)

\* on_cancel, and the return of run_preprocessing_thread at line 1052.
on_cancel ==
    /\ DialogFree
    /\ dialog_open' = FALSE
    /\ task_queue' = Append(task_queue, StatusTask("Preprocessing cancelled"))
    /\ UNCHANGED <<audio_aes_command, audio_aes_batch_size, preprocess_overwrite,
                   log_text, status_label, queue_dialog, workers, tree, messagebox,
                   job_gui_vars, disk, load_vars>>

job_window_vars ==
    <<audio_aes_command, audio_aes_batch_size, preprocess_overwrite, dialog_open,
      log_text, status_label, queue_dialog, messagebox, job_gui_vars, disk,
      load_vars>>

\* Lines 1089-1105 of thread w: the subdirectories are listed (listed is
\* whether os.listdir succeeds).
find_subdirs(w, listed) ==
    /\ w \in 1..Len(workers)
    /\ window # "exited"
    /\ workers[w].pc = "find"
    /\ IF ~listed
       THEN /\ task_queue' = task_queue \o
                   <<LogTask("FATAL ERROR"), StatusTask("Preprocessing failed"),
                     BoxTask("Preprocessing Error")>>
            /\ workers' = [workers EXCEPT ![w].pc = "done"]
       ELSE IF tree = <<>>
       THEN /\ task_queue' = task_queue \o
                   <<LogTask("No subdirectories found"),
                     StatusTask("Preprocessing finished: No subdirectories found")>>
            /\ workers' = [workers EXCEPT ![w].pc = "done"]
       ELSE /\ task_queue' = Append(task_queue, LogTask("Found subdirectories"))
            /\ workers' = [workers EXCEPT ![w].total_dirs = Len(tree),
                                          ![w].i = 1, ![w].pc = "subdir"]
    /\ UNCHANGED <<tree, job_window_vars>>

\* Lines 1108-1124 of thread w: a subdirectory is begun, and skipped when
\* its scores are there and are not to be overwritten.
begin_subdir(w) ==
    /\ w \in 1..Len(workers)
    /\ window # "exited"
    /\ workers[w].pc = "subdir"
    /\ LET me == workers[w]
           begun == <<StatusTask("Starting"), LogTask("subdirectory")>>
       IN IF skip_existing(me.overwrite_existing, tree[me.i])
          THEN /\ task_queue' = task_queue \o begun \o <<LogTask("Skipping: exists")>>
               /\ workers' = [workers EXCEPT ![w] =
                      next_subdir([me EXCEPT !.skipped_existing_count = @ + 1])]
          ELSE /\ task_queue' = task_queue \o begun
               /\ workers' = [workers EXCEPT ![w].pc = "paths"]
    /\ UNCHANGED <<tree, job_window_vars>>

\* Lines 1126-1148 of thread w: paths.jsonl is written.
write_paths(w) ==
    /\ w \in 1..Len(workers)
    /\ window # "exited"
    /\ workers[w].pc = "paths"
    /\ LET me == workers[w]
           r == create_wav_jsonl(tree[me.i])
           created == r.reports \o <<LogTask("1. Create paths.jsonl")>>
       IN /\ tree' = [tree EXCEPT ![me.i] = r.dir]
          /\ IF after_paths(r.count) = "error"
             THEN /\ task_queue' = task_queue \o created \o <<LogTask("ERROR")>>
                  /\ workers' = [workers EXCEPT ![w] =
                         next_subdir([me EXCEPT !.error_count = @ + 1])]
             ELSE IF after_paths(r.count) = "no wav"
             THEN /\ task_queue' = task_queue \o created \o
                         <<LogTask("Skipping audio-aes")>>
                  /\ workers' = [workers EXCEPT ![w] =
                         next_subdir([me EXCEPT !.skipped_no_wav_count = @ + 1])]
             ELSE /\ task_queue' = task_queue \o created \o
                         <<LogTask("2. Running"), StatusTask("Running audio-aes")>>
                  /\ workers' = [workers EXCEPT ![w].pc = "aes",
                                                ![w].update_idletasks = @ + 1]
    /\ UNCHANGED job_window_vars

\* Lines 1151-1164 of thread w: the command is run.
invoke_audio_aes(w, outcome) ==
    /\ w \in 1..Len(workers)
    /\ window # "exited"
    /\ workers[w].pc = "aes"
    /\ LET me == workers[w]
           r == run_audio_aes(tree[me.i], outcome)
       IN /\ tree' = [tree EXCEPT ![me.i] = r.dir]
          /\ task_queue' = task_queue \o
                 <<LogTask("Command finished"),
                   LogTask(IF r.success THEN "Result: Success" ELSE "Result: FAILURE"),
                   LogTask(r.msg)>>
          /\ workers' = [workers EXCEPT ![w] =
                 next_subdir(IF r.success THEN [me EXCEPT !.processed_count = @ + 1]
                             ELSE [me EXCEPT !.error_count = @ + 1])]
    /\ UNCHANGED job_window_vars

\* Lines 1166-1187 of thread w: the summary.
summary(w) ==
    /\ w \in 1..Len(workers)
    /\ window # "exited"
    /\ workers[w].pc = "summary"
    /\ task_queue' = task_queue \o
           <<StatusTask("Preprocessing finished"), LogTask("Preprocessing Job Summary"),
             BoxTask("Preprocessing Complete")>>
    /\ workers' = [workers EXCEPT ![w].pc = "done"]
    /\ UNCHANGED <<tree, job_window_vars>>

\* The state the loop of process_queue leaves.
Drained(r) ==
    /\ task_queue' = r.queue
    /\ log_text' = r.log
    /\ status_label' = r.status
    /\ queue_dialog' = r.dialog
    /\ UNCHANGED <<audio_aes_command, audio_aes_batch_size, preprocess_overwrite,
                   dialog_open, workers, tree, messagebox, job_gui_vars, disk,
                   load_vars>>

\* process_queue, run by the timer while it is not held up in a dialog of
\* its own.
process_queue ==
    /\ window = "open"
    /\ queue_dialog = ""
    /\ task_queue # <<>>
    /\ Drained(drain(task_queue, log_text, status_label))

\* The user closes the dialog a task showed; the loop of process_queue goes on.
dismiss_queue_dialog ==
    /\ queue_dialog # ""
    /\ Drained(drain(task_queue, log_text, status_label))

\* _on_closing: the main window is destroyed, which ends mainloop().
on_closing ==
    /\ MainWindowFree
    /\ window' = "destroyed"
    /\ UNCHANGED <<audio_aes_command, audio_aes_batch_size, preprocess_overwrite,
                   dialog_open, log_text, status_label, task_queue, queue_dialog,
                   workers, dialogs_opened, tree, aes_call, wav_call, disk,
                   load_vars, gui_vars>>

\* The script ends after mainloop() (line 1224) and the interpreter exits;
\* the threads are daemon threads (line 1076) and end with it wherever
\* they are.
exit_process ==
    /\ window = "destroyed"
    /\ window' = "exited"
    /\ UNCHANGED <<audio_aes_command, audio_aes_batch_size, preprocess_overwrite,
                   dialog_open, log_text, status_label, task_queue, queue_dialog,
                   workers, dialogs_opened, tree, aes_call, wav_call, disk,
                   load_vars, gui_vars>>

NextPre ==
    \/ run_preprocessing_thread
    \/ \E t \in CommandTexts : set_command(t)
    \/ \E t \in BatchSizeTexts : set_batch_size(t)
    \/ toggle_overwrite
    \/ on_ok
    \/ on_cancel
    \/ \E w \in 1..MaxRuns : \E listed \in BOOLEAN : find_subdirs(w, listed)
    \/ \E w \in 1..MaxRuns : begin_subdir(w)
    \/ \E w \in 1..MaxRuns : write_paths(w)
    \/ \E w \in 1..MaxRuns : \E o \in ToolOutcomes : invoke_audio_aes(w, o)
    \/ \E w \in 1..MaxRuns : summary(w)
    \/ process_queue
    \/ dismiss_queue_dialog
    \/ dismiss_messagebox
    \/ on_closing
    \/ exit_process

SpecPre == InitPre /\ [][NextPre]_vars

\* ------------------------------------------------- jobs started in a row

\* How many threads are started when OK is pressed again and again.
MaxRunsAtOnce == 2

\* The window with a valid base directory of one subdirectory not yet
\* processed; the options are left as they are, the listing succeeds and
\* the command exits with 0.
InitRuns ==
    /\ disk = <<>>
    /\ LoadIdle
    /\ selected_directory = "base"
    /\ WindowInit
    /\ JobInit
    /\ tree = Unprocessed

NextRuns ==
    \/ run_preprocessing_thread
    \/ on_ok_within(MaxRunsAtOnce)
    \/ \E w \in 1..MaxRunsAtOnce : find_subdirs(w, TRUE)
    \/ \E w \in 1..MaxRunsAtOnce : begin_subdir(w)
    \/ \E w \in 1..MaxRunsAtOnce : write_paths(w)
    \/ \E w \in 1..MaxRunsAtOnce : invoke_audio_aes(w, Exit0)
    \/ \E w \in 1..MaxRunsAtOnce : summary(w)
    \/ process_queue
    \/ dismiss_queue_dialog

SpecRuns == InitRuns /\ [][NextRuns]_vars

\* ------------------------------------------- run_audio_aes on bounded inputs

\* The directories run_audio_aes is called on: writable or not, with
\* paths.jsonl missing, empty or of one or two lines, with or without
\* scores.jsonl.
TargetDirs ==
    {Subdir("s1", TRUE, wr, n, p, sc) :
        wr \in BOOLEAN, n \in {0, 2}, p \in {None, Some(0), Some(1), Some(2)},
        sc \in {None, Some("old")}}

InitTools ==
    /\ disk = <<>>
    /\ LoadIdle
    /\ GuiInit
    /\ JobInit
    /\ \E d \in TargetDirs : tree = <<d>>

call_run_audio_aes(outcome) ==
    /\ aes_call = None
    /\ LET r == run_audio_aes(tree[1], outcome)
       IN /\ aes_call' = Some([outcome |-> outcome, before |-> tree[1],
                               success |-> r.success, msg |-> r.msg,
                               errno_text |-> r.errno_text,
                               stderr_note |-> r.stderr_note,
                               spawned |-> r.spawned])
          /\ tree' = <<r.dir>>
    /\ UNCHANGED <<audio_aes_command, audio_aes_batch_size, preprocess_overwrite,
                   dialog_open, log_text, status_label, task_queue, queue_dialog,
                   workers, dialogs_opened, window, wav_call, disk, load_vars,
                   gui_vars>>

\* What the command and the write can do in a call of run_audio_aes.
CallOutcomes ==
    {Outcome(x, out, err, wr) :
        x \in {"exit 0", "not found", "permission denied", "exit 1"},
        out \in {"", "stdout"}, err \in {<<>>, <<" ", "w", " ">>},
        wr \in {"ok", "OSError", "FileNotFoundError"}}

NextTools == \E o \in CallOutcomes : call_run_audio_aes(o)

SpecTools == InitTools /\ [][NextTools]_vars

\* --------------------------------------- create_wav_jsonl on bounded inputs

MaxEntries == 3

\* The names a directory can hold: two that end in .wav, in lower and in
\* upper case, and two that do not.
EntryNames ==
    {<<"a", ".", "w", "a", "v">>, <<"B", ".", "W", "A", "V">>, <<"w", "a", "v">>,
     <<"a", ".", "w", "a", "v", ".", "b">>}

\* What os.listdir can return: up to MaxEntries different names in any order.
DirListings ==
    {s \in UNION {[1..n -> EntryNames] : n \in 0..MaxEntries} :
        \A i, j \in 1..Len(s) : i # j => s[i] # s[j]}

TargetDir == <<"/", "d">>
PriorManifests == {None, Some(<<json_line(TargetDir, <<"o", ".", "w", "a", "v">>)>>)}

InitIndex ==
    /\ disk = <<>>
    /\ LoadIdle
    /\ GuiInit
    /\ JobInit
    /\ tree = <<>>

call_create_wav_jsonl(listing, prior, opens, fails) ==
    /\ wav_call = None
    /\ LET r == create_wav_jsonl_of(TargetDir, listing, prior, opens, fails)
       IN wav_call' = Some([listing |-> listing, prior |-> prior, opens |-> opens,
                            fails |-> fails, count |-> r.count,
                            manifest |-> r.manifest])
    /\ UNCHANGED <<audio_aes_command, audio_aes_batch_size, preprocess_overwrite,
                   dialog_open, log_text, status_label, task_queue, queue_dialog,
                   workers, dialogs_opened, tree, window, aes_call, disk, load_vars,
                   gui_vars>>

NextIndex ==
    \E listing \in {None} \cup {Some(s) : s \in DirListings} :
    \E prior \in PriorManifests : \E opens \in BOOLEAN :
    \E fails \in SUBSET (1..MaxEntries) :
        call_create_wav_jsonl(listing, prior, opens, fails)

SpecIndex == InitIndex /\ [][NextIndex]_vars

\* ------------------------------------------------------- claims on the job

\* The batch size texts that stand for an integer below 1.
NonPositiveTexts == {<<"0">>, <<"-", "1">>}

\* C9: on_ok with a batch size of zero or less starts no thread, writes no
\* paths.jsonl and no scores.jsonl, leaves the log and the queue as they
\* were and keeps the dialog open behind an error box (the box on the
\* batch size, or the one on a blank command); and no thread ever runs
\* with a batch size below 1.
C9_NonPositiveBatchRejected ==
    /\ [](\A w \in 1..Len(workers) : workers[w].batch_size >= 1)
    /\ [][(on_ok /\ audio_aes_batch_size \in NonPositiveTexts)
             => /\ workers' = workers
                /\ tree' = tree
                /\ log_text' = log_text
                /\ task_queue' = task_queue
                /\ dialog_open'
                /\ messagebox' = "Invalid Input"]_vars

\* While the first job has logged its start and written no paths.jsonl
\* yet, the dialog was opened again and OK pressed on a batch size below 1:
\* the error box is up, the dialog open, the log still there, and the first
\* thread the only one.
C9_Witness ==
    /\ dialog_open
    /\ messagebox = "Invalid Input"
    /\ audio_aes_batch_size \in NonPositiveTexts
    /\ strip(audio_aes_command) # <<>>
    /\ log_text # <<>>
    /\ Len(workers) = 1
    /\ \A d \in 1..Len(tree) : tree[d].paths = None

\* The subdirectories thread w has counted, and those it has finished: the
\* one it is in is not finished.
Counted(w) ==
    w.processed_count + w.error_count + w.skipped_no_wav_count
        + w.skipped_existing_count
InLoop(w) == w.pc \in {"subdir", "paths", "aes"}
Finished(w) == IF InLoop(w) THEN w.i - 1 ELSE w.i
Threads == 1..Len(workers)

\* C13: in every state the four counters of a thread sum to the number of
\* subdirectories it has finished, and after the loop to the number of
\* subdirectories scanned; a step that finishes a subdirectory adds one to
\* exactly one counter, and no other step changes a counter.
C13_CountersSumToFinished ==
    /\ [](\A w \in Threads :
            /\ Counted(workers[w]) = Finished(workers[w])
            /\ workers[w].pc \in {"summary", "done"}
                  => Counted(workers[w]) = workers[w].total_dirs)
    /\ [][\A w \in Threads :
            LET a == workers[w]
                b == workers'[w]
            IN /\ b.processed_count >= a.processed_count
               /\ b.error_count >= a.error_count
               /\ b.skipped_no_wav_count >= a.skipped_no_wav_count
               /\ b.skipped_existing_count >= a.skipped_existing_count
               /\ Counted(b) = IF InLoop(a) /\ (b.i = a.i + 1 \/ b.pc = "summary")
                               THEN Counted(a) + 1 ELSE Counted(a)]_vars

\* The job on the scored subdirectory and the one without .wav files, with
\* overwriting on, is over: one processed, one skipped for no .wav file.
C13_Witness ==
    \E w \in Threads :
        /\ workers[w].pc = "done"
        /\ workers[w].total_dirs = 2
        /\ workers[w].processed_count = 1
        /\ workers[w].skipped_no_wav_count = 1
        /\ workers[w].error_count = 0
        /\ workers[w].skipped_existing_count = 0

\* C14: when a thread that is not to overwrite begins a subdirectory that
\* has a scores.jsonl, it counts it as skipped for that and goes on to the
\* next one; paths.jsonl and scores.jsonl of every subdirectory stay as
\* they are and the command is not started.
C14_ExistingScoresSkipped ==
    [][\A w \in Threads :
          (/\ begin_subdir(w)
           /\ ~workers[w].overwrite_existing
           /\ tree[workers[w].i].scores # None)
             => /\ tree' = tree
                /\ workers'[w].skipped_existing_count =
                      workers[w].skipped_existing_count + 1
                /\ workers'[w].processed_count = workers[w].processed_count
                /\ workers'[w].error_count = workers[w].error_count
                /\ workers'[w].skipped_no_wav_count =
                      workers[w].skipped_no_wav_count
                /\ \/ workers'[w].pc = "summary"
                   \/ workers'[w].pc = "subdir" /\ workers'[w].i = workers[w].i + 1]_vars

\* The first subdirectory, which has scores, was skipped: it still has its
\* old scores and no paths.jsonl, and the command never ran in it.
C14_Witness ==
    \E w \in Threads :
        /\ workers[w].skipped_existing_count = 1
        /\ ~workers[w].overwrite_existing
        /\ tree[1].scores = Some("old")
        /\ tree[1].paths = None
        /\ tree[1].spawns = 0

\* C15: when create_wav_jsonl finds no .wav file in the subdirectory of a
\* thread, the thread counts it as skipped for no .wav file and goes on to
\* the next one without running the command; and the command is never
\* started in a subdirectory without .wav files.
C15_NoMediaSkipped ==
    /\ [](\A d \in 1..Len(tree) : tree[d].wavs = 0 => tree[d].spawns = 0)
    /\ [][\A w \in Threads :
            (/\ write_paths(w)
             /\ tree[workers[w].i].listable
             /\ tree[workers[w].i].writable
             /\ tree[workers[w].i].wavs = 0)
               => /\ workers'[w].skipped_no_wav_count =
                        workers[w].skipped_no_wav_count + 1
                  /\ workers'[w].processed_count = workers[w].processed_count
                  /\ workers'[w].error_count = workers[w].error_count
                  /\ workers'[w].skipped_existing_count =
                        workers[w].skipped_existing_count
                  /\ workers'[w].pc # "aes"
                  /\ tree'[workers[w].i].spawns = tree[workers[w].i].spawns
                  /\ tree'[workers[w].i].scores = tree[workers[w].i].scores]_vars

\* The job is over the subdirectory without .wav files: it is counted as
\* skipped, has an empty paths.jsonl and no scores, and no command ran.
C15_Witness ==
    \E w \in Threads :
        /\ workers[w].pc = "done"
        /\ workers[w].skipped_no_wav_count = 1
        /\ tree[2].wavs = 0
        /\ tree[2].paths = Some(0)
        /\ tree[2].scores = None
        /\ tree[2].spawns = 0

\* How often the summary has been logged: its lines in the log widget and
\* on the queue (the log is cleared only when a job starts).
Occurrences(seq, x) == Cardinality({k \in 1..Len(seq) : seq[k] = x})
SummariesLogged ==
    Occurrences(log_text, "Preprocessing Job Summary")
        + Occurrences(task_queue, LogTask("Preprocessing Job Summary"))

\* C16 as stated: a thread that has ended has produced the summary once.
C16_SummaryOncePerRun ==
    (Len(workers) = 1 /\ workers[1].pc = "done") => SummariesLogged = 1

\* C19: a thread that found subdirectories takes them one by one in the
\* order of the list, whatever fails in them, and leaves the loop only
\* after the last; only a listing that fails, or that finds nothing, ends
\* the thread before the loop.
C19_FailuresDoNotAbort ==
    /\ [](\A w \in Threads :
            /\ workers[w].pc # "find" => workers[w].total_dirs \in {0, Len(tree)}
            /\ (workers[w].pc \in {"summary", "done"} /\ workers[w].total_dirs > 0)
                  => workers[w].i = workers[w].total_dirs)
    /\ [][\A w \in Threads :
            /\ workers'[w].i # workers[w].i
                  => /\ workers'[w].i = workers[w].i + 1
                     /\ workers'[w].pc = "subdir"
            /\ (find_subdirs(w, TRUE) /\ tree # <<>>)
                  => /\ workers'[w].pc = "subdir"
                     /\ workers'[w].i = 1
                     /\ workers'[w].total_dirs = Len(tree)
            /\ (workers[w].pc = "find" /\ workers'[w].pc = "done")
                  => find_subdirs(w, FALSE) \/ tree = <<>>]_vars

\* paths.jsonl could not be written in the first subdirectory, and the
\* command was then started in the second and failed there: two errors,
\* and the job is over.
C19_Witness ==
    \E w \in Threads :
        /\ workers[w].pc = "done"
        /\ workers[w].total_dirs = 2
        /\ workers[w].error_count = 2
        /\ ~tree[1].writable
        /\ tree[1].paths = None
        /\ tree[2].spawns = 1
        /\ tree[2].scores = None

\* C20: a call of run_audio_aes on a directory whose paths.jsonl is
\* missing or empty returns failure with a message that says which of the
\* two it is, spawns no process, whatever the command would have done, and
\* leaves the directory as it was.
C20_NoSpawnWithoutManifest ==
    (aes_call # None /\ aes_call[1].before.paths \in {None, Some(0)})
        => /\ ~aes_call[1].success
           /\ ~aes_call[1].spawned
           /\ aes_call[1].msg = IF aes_call[1].before.paths = None
                                THEN "Input file not found"
                                ELSE "Input file is empty"
           /\ tree[1] = aes_call[1].before
           /\ tree[1].spawns = 0

\* run_audio_aes was called on a writable directory with an empty
\* paths.jsonl and a command that would have succeeded.
C20_Witness ==
    /\ aes_call # None
    /\ aes_call[1].before.paths = Some(0)
    /\ aes_call[1].before.writable
    /\ aes_call[1].outcome.exec = "exit 0"
    /\ ~aes_call[1].success
    /\ tree[1].scores = None

\* C17 as stated, with the closing of the main window as the request to
\* cancel: no thread is cut off by the end of the process, and a summary
\* produced once the window is closed reports the job as halted.
C17_CancelledRunHalts ==
    /\ [](window = "exited" => \A w \in Threads : workers[w].pc = "done")
    /\ [][\A w \in Threads :
            (window # "open" /\ summary(w))
               => Occurrences(task_queue',
                              BoxTask("Preprocessing Halted by user request"))
                    > Occurrences(task_queue,
                                  BoxTask("Preprocessing Halted by user request"))]_vars

\* C18 as stated: no two threads are at work at the same time.
C18_AtMostOneActiveRun ==
    Cardinality({w \in Threads : workers[w].pc # "done"}) <= 1

\* ---------------------------------------------- more claims on the window

\* C28: in every state of the window, whatever was browsed, loaded,
\* filtered, cleared and sorted, and whatever was refused on the way, every
\* displayed record is a record of the full list, and it is displayed no
\* more often than the full list holds it.
C28_DisplayedWithinFull ==
    \A i \in 1..Len(display_audio_data) :
        /\ \E j \in 1..Len(full_audio_data) :
              full_audio_data[j] = display_audio_data[i]
        /\ Occurrences(display_audio_data, display_audio_data[i])
              <= Occurrences(full_audio_data, display_audio_data[i])

\* A filter with a min above its max was just refused on a list that was
\* filtered down to two of the three files and then sorted out of load
\* order.
C28_Witness ==
    /\ messagebox = "Filter Warning"
    /\ Len(full_audio_data) = 3
    /\ Len(display_audio_data) = 2
    /\ sort_streak.n >= 1
    /\ Pos(full_audio_data, display_audio_data[1])
          > Pos(full_audio_data, display_audio_data[2])

\* The records of a list are in the order they have in the full list.
InLoadOrder(list, full) ==
    \A i, j \in 1..Len(list) :
        i < j => Pos(full, list[i]) < Pos(full, list[j])

\* C29: a filter application that goes through (apply_filters,
\* clear_filters or the filter step of a load, ending without a dialog)
\* leaves no sort column and no reverse flag and the displayed records in
\* the order of the full list; and the first sort_column call after it on
\* a list that is not empty sorts ascending, whatever the column.
C29_FilteringResetsSort ==
    /\ [][((apply_filters \/ clear_filters \/ load_and_display_data)
              /\ messagebox' = "")
             => /\ current_sort_column' = NoColumn
                /\ ~current_sort_reverse'
                /\ InLoadOrder(display_audio_data', full_audio_data')]_vars
    /\ [][\A c \in Columns :
            (sort_column(c) /\ sort_streak.n = 0 /\ display_audio_data # <<>>)
               => /\ ~current_sort_reverse'
                  /\ current_sort_column' = c
                  /\ Ascending(display_audio_data', c)]_vars

\* The first sort by PC after a filtering by filename that left two files:
\* the list is ascending, Ba (PC 1) before Ab (PC 2), against load order.
C29_Witness ==
    /\ sort_streak = [col |-> "PC", n |-> 1]
    /\ ~current_sort_reverse
    /\ filter_text["filename"] # <<>>
    /\ Len(display_audio_data) = 2
    /\ display_audio_data[1].path = PathBa
    /\ display_audio_data[2].path = PathAb

\* ------------------------------------------- more claims on run_audio_aes

\* The call of run_audio_aes found a paths.jsonl that is not empty.
Launched(c) == c.before.paths \notin {None, Some(0)}

\* C21: when the command exits with status 0 and scores.jsonl can be
\* written, the call returns success, scores.jsonl holds the captured
\* standard output and nothing else, whatever it held before and whether or
\* not the command wrote to its standard error; the standard error only
\* shows, stripped, in the message returned.
C21_StdoutWrittenVerbatim ==
    (/\ aes_call # None
     /\ Launched(aes_call[1])
     /\ aes_call[1].outcome.exec = "exit 0"
     /\ aes_call[1].before.writable
     /\ aes_call[1].outcome.write = "ok")
        => /\ aes_call[1].success
           /\ aes_call[1].msg = "Successfully created"
           /\ aes_call[1].stderr_note =
                  IF aes_call[1].outcome.stderr = <<>> THEN None
                  ELSE Some(strip(aes_call[1].outcome.stderr))
           /\ tree[1] = [aes_call[1].before EXCEPT
                            !.scores = Some(aes_call[1].outcome.stdout),
                            !.spawns = 1]

\* The command wrote nothing to its standard output and a warning to its
\* standard error, and exited with 0: the old scores are replaced by an
\* empty file and the call succeeds.
C21_Witness ==
    /\ aes_call # None
    /\ aes_call[1].before.scores = Some("old")
    /\ aes_call[1].outcome.stderr = <<" ", "w", " ">>
    /\ aes_call[1].outcome.stdout = ""
    /\ aes_call[1].success
    /\ aes_call[1].stderr_note = Some(<<"w">>)
    /\ tree[1].scores = Some("")

\* The command exited with 0 and scores.jsonl could not be written.
FailedToWrite(c) ==
    /\ Launched(c)
    /\ c.outcome.exec = "exit 0"
    /\ ~c.before.writable \/ c.outcome.write # "ok"

\* What the caller of run_audio_aes is told.
Reported(r) == <<r.success, r.msg, r.errno_text>>

\* What the caller is told when the command could not be started or
\* exited with another status than 0.
LaunchReports ==
    {Reported(run_audio_aes(d, o)) :
        d \in {t \in TargetDirs : t.paths \notin {None, Some(0)}},
        o \in {c \in CallOutcomes : c.exec # "exit 0"}}

\* C22 as stated: a failure to write scores.jsonl after the command has
\* succeeded is never reported as a failure to start or run the command is.
C22_WriteFailureReportedApart ==
    (aes_call # None /\ FailedToWrite(aes_call[1]))
        => /\ ~aes_call[1].success
           /\ Reported(aes_call[1]) \notin LaunchReports

\* ------------------------------------------------- more claims on the job

\* C27: when create_wav_jsonl returns a negative count for a subdirectory,
\* the thread counts one error and nothing else, logs the error, leaves the
\* subdirectory as it is, does not go on to run the command for it and
\* turns to the next subdirectory, or to the summary after the last.
C27_SentinelMarksError ==
    [][\A w \in 1..MaxRuns :
          (write_paths(w) /\ create_wav_jsonl(tree[workers[w].i]).count < 0)
              => /\ workers'[w].error_count = workers[w].error_count + 1
                 /\ workers'[w].processed_count = workers[w].processed_count
                 /\ workers'[w].skipped_no_wav_count = workers[w].skipped_no_wav_count
                 /\ workers'[w].skipped_existing_count
                        = workers[w].skipped_existing_count
                 /\ task_queue'[Len(task_queue')] = LogTask("ERROR")
                 /\ tree' = tree
                 /\ workers'[w].pc # "aes"
                 /\ IF workers[w].i < workers[w].total_dirs
                    THEN workers'[w].i = workers[w].i + 1 /\ workers'[w].pc = "subdir"
                    ELSE workers'[w].pc = "summary"]_vars

\* A run finished over a read-only first subdirectory and a good second
\* one: one error, one processed, the command never run in the first.
C27_Witness ==
    /\ Len(tree) = 2
    /\ ~tree[1].writable
    /\ \E w \in Threads :
        /\ workers[w].pc = "done"
        /\ workers[w].error_count = 1
        /\ workers[w].processed_count = 1
    /\ tree[1].spawns = 0
    /\ tree[2].scores = Some("stdout")

\* C30: when the command is not found or exits with another status than 0,
\* scores.jsonl of the subdirectory is after the call what it was before,
\* absent or with its old content, and paths.jsonl stays as the thread has
\* just written it, with one line for each .wav file.
C30_FailedRunKeepsScores ==
    [][\A w \in 1..MaxRuns : \A o \in {NotFound, Exit1} :
          invoke_audio_aes(w, o)
              => LET i == workers[w].i
                 IN /\ tree'[i].scores = tree[i].scores
                    /\ tree'[i].paths = Some(tree[i].wavs)
                    /\ tree'[i].paths = tree[i].paths
                    /\ workers'[w].error_count = workers[w].error_count + 1
                    /\ workers'[w].processed_count = workers[w].processed_count]_vars

\* With overwriting on, the command was run on a subdirectory that had
\* scores and exited with 1: the old scores are still there, next to the new
\* paths.jsonl.
C30_Witness ==
    /\ Len(tree) = 2
    /\ tree[1].scores = Some("old")
    /\ tree[1].paths = Some(1)
    /\ tree[1].spawns = 1
    /\ \E w \in Threads : workers[w].error_count = 1 /\ workers[w].i = 2

\* C24 as stated, with the closing of the main window as the request to
\* cancel: once the window is closed no thread starts a subdirectory,
\* writes a paths.jsonl or runs the command.
C24_NoCheckpointPassedAfterCancel ==
    [][\A w \in 1..MaxRuns :
          window # "open"
              => ~(\/ begin_subdir(w)
                   \/ write_paths(w)
                   \/ \E o \in ToolOutcomes : invoke_audio_aes(w, o))]_vars

\* C25 as stated, for the threads of _perform_preprocessing: no thread
\* has called a method of the window itself.
C25_WorkersKeepOffWindow ==
    \A w \in Threads : workers[w].update_idletasks = 0

\* C26 as stated, for the last update of a run: when the only thread has
\* produced its summary and every task has been executed, the status bar
\* shows the status the thread emitted last.
C26_LastStatusShownLast ==
    (/\ dialogs_opened = 1
     /\ Len(workers) = 1
     /\ workers[1].pc = "done"
     /\ Occurrences(log_text, "Preprocessing Job Summary") = 1
     /\ task_queue = <<>>
     /\ queue_dialog = "")
        => status_label = "Preprocessing finished"

\* ---------------------------------------------- claims on create_wav_jsonl

\* The name ends in .wav, in whatever case.
EndsInWav(name) ==
    /\ Len(name) >= 4
    /\ name[Len(name) - 3] = "."
    /\ name[Len(name) - 2] \in {"w", "W"}
    /\ name[Len(name) - 1] \in {"a", "A"}
    /\ name[Len(name)] \in {"v", "V"}

\* The places of the listing whose names end in .wav, and of those the
\* ones whose line is written.
WavPlaces(c) == {k \in 1..Len(c.listing[1]) : EndsInWav(c.listing[1][k])}
WavRank(c, k) == Cardinality({m \in WavPlaces(c) : m <= k})
WrittenPlaces(c) == {k \in WavPlaces(c) : WavRank(c, k) \notin c.fails}

\* The lines of paths.jsonl are those of the written places, in the order
\* of the listing, one each.
OneLinePerWrittenPlace(c, lines) ==
    /\ Len(lines) = Cardinality(WrittenPlaces(c))
    /\ \A k \in WrittenPlaces(c) :
           Occurrences(lines, json_line(TargetDir, c.listing[1][k])) = 1
    /\ \A i, j \in 1..Len(lines) :
           i < j => \E k, m \in WrittenPlaces(c) :
                       /\ k < m
                       /\ lines[i] = json_line(TargetDir, c.listing[1][k])
                       /\ lines[j] = json_line(TargetDir, c.listing[1][m])

=============================================================================
